---- MODULE Spec2Model ----
(***************************************************************************)
(* Model of the embedded metadata store of agentcrew                       *)
(* (src/src/database/mod.rs): the connection manager (Database::new), the  *)
(* migration engine (migrate, get_schema_version), the relational schema   *)
(* of MIGRATIONS with its constraints, the retention cleanup               *)
(* (cleanup_old_sessions) and the statistics query (get_stats).            *)
(*                                                                         *)
(* The persisted store is the variable db.  A write transaction works on   *)
(* a private copy (tx) that replaces db only at commit; SQLite admits one  *)
(* writer at a time, which is the variable lock.                           *)
(*                                                                         *)
(* Spec is one handle driven by the tasks of one process; SpecOpens is     *)
(* several Database::new calls on the same path, interleaved; SpecStore is *)
(* one handle with the statements of the entity store; SpecStats is one    *)
(* handle with get_stats running among statements; SpecClose is one handle *)
(* with cleanup, get_stats and close; SpecOpensInTurn is Database::new     *)
(* calls one after the other, and SpecLifetime adds sessions, cleanup and  *)
(* close on the first handle to them.                                      *)
(***************************************************************************)
EXTENDS Integers, Sequences, FiniteSets, TLC

VARIABLES
    db,                 \* the persisted store (the SQLite file)
    now,                \* the wall clock
    lock,               \* the handles whose transaction holds the write lock (at most one)
    pc,                 \* position of each Database::new call / handle
    current_version,    \* migrate's local current_version
    idx,                \* migrate's position in MIGRATIONS
    tx,                 \* working copy of the handle's open transaction
    cpc,                \* position of the handle's cleanup_old_sessions call
    cutoff,             \* cleanup's cutoff_date
    deleted,            \* cleanup's <<deleted_sessions, deleted_interactions>>
    executed,           \* history: migration versions whose script the handle ran
    commits,            \* history: number of commits of each migration
    failed_at,          \* history: version of the migration whose transaction failed
    uptodate_at_start,  \* history: the store was up to date when new was called
    snap,               \* history: the persisted store when cleanup began
    stats,              \* the handle's get_stats call: queries done, their results,
                        \* and (history) whether the store stayed at rest meanwhile
    last                \* return value and printed line of the latest statement or cleanup

vars == <<db, now, lock, pc, current_version, idx, tx, cpc, cutoff, deleted,
          executed, commits, failed_at, uptodate_at_start, snap, stats, last>>

(***************************************************************************)
(* Bounds                                                                  *)
(***************************************************************************)
\* number of Database::new calls on the one store path
MaxOpens == 3
\* number of times the clock advances (two instants a day)
MaxTicks == 1
\* cap on the total number of entity rows in the store
MaxRows == 3

Handles == 1..MaxOpens
\* the handle the entity operations, cleanup and stats go through
Main == 1

(***************************************************************************)
(* Program constants                                                       *)
(***************************************************************************)
SCHEMA_VERSION == 1

\* one CREATE statement of a migration script
Stmt(kind, name, ine) == [kind |-> kind, name |-> name, if_not_exists |-> ine]

InitialSchemaSql ==
    << Stmt("table", "schema_version", TRUE),
       Stmt("table", "sessions", FALSE),
       Stmt("table", "agents", FALSE),
       Stmt("table", "interactions", FALSE),
       Stmt("table", "file_changes", FALSE),
       Stmt("index", "idx_agents_session_id", FALSE),
       Stmt("index", "idx_agents_status", FALSE),
       Stmt("index", "idx_interactions_agent_id", FALSE),
       Stmt("index", "idx_interactions_session_id", FALSE),
       Stmt("index", "idx_interactions_type", FALSE),
       Stmt("index", "idx_interactions_requires_response", FALSE),
       Stmt("index", "idx_file_changes_agent_id", FALSE),
       Stmt("index", "idx_file_changes_session_id", FALSE),
       Stmt("index", "idx_sessions_status", FALSE),
       Stmt("index", "idx_sessions_started_at", FALSE) >>

MIGRATIONS == << [version |-> 1, sql |-> InitialSchemaSql] >>

SessionStatuses == {"active", "completed", "failed", "paused"}
AgentTypes == {"claude", "gpt", "jules"}
AgentStatuses == {"initializing", "running", "waiting", "completed", "failed", "paused"}
InteractionTypes == {"question", "response", "status", "log", "error", "checkpoint"}
ChangeTypes == {"created", "modified", "deleted", "renamed"}

(***************************************************************************)
(* Timestamps.  A stored or bound timestamp is the text SQLite compares,   *)
(* abstracted to <<day, separator, time of day>>: CURRENT_TIMESTAMP writes *)
(* "YYYY-MM-DD HH:MM:SS" (separator ' ', rank 0) and a bound chrono        *)
(* DateTime<Utc> is written as RFC 3339 "YYYY-MM-DDTHH:MM:SS+00:00"        *)
(* (separator 'T', rank 1).  Text is compared left to right.               *)
(***************************************************************************)
Instant(day, tod) == [day |-> day, tod |-> tod]
CURRENT_TIMESTAMP(t) == <<t.day, 0, t.tod>>
Rfc3339(t) == <<t.day, 1, t.tod>>

TextLess(a, b) ==
    \/ a[1] < b[1]
    \/ a[1] = b[1] /\ a[2] < b[2]
    \/ a[1] = b[1] /\ a[2] = b[2] /\ a[3] < b[3]

\* Utc::now() - Duration::days(days_to_keep)
CutoffDate(t, days_to_keep) == Instant(t.day - days_to_keep, t.tod)

(***************************************************************************)
(* The persisted store                                                     *)
(***************************************************************************)
EmptyStore ==
    [ schema |-> {}, schema_version |-> {},
      sessions |-> {}, agents |-> {}, interactions |-> {}, file_changes |-> {},
      seq_interactions |-> 0, seq_file_changes |-> 0 ]

NoTx == [none |-> TRUE]

Max(S) == CHOOSE m \in S : \A x \in S : x <= m

\* names of the schema objects a script creates
ObjectsOf(sql) == { sql[i].name : i \in 1..Len(sql) }

\* sqlx executes the statements of a script one after the other; CREATE of an
\* existing object is an error unless it says IF NOT EXISTS
RECURSIVE ExecuteSql(_, _, _)
ExecuteSql(schema, sql, i) ==
    IF i > Len(sql) THEN [ok |-> TRUE, schema |-> schema]
    ELSE IF sql[i].name \in schema
         THEN IF sql[i].if_not_exists
              THEN ExecuteSql(schema, sql, i + 1)
              ELSE [ok |-> FALSE, schema |-> schema]
         ELSE ExecuteSql(schema \cup {sql[i].name}, sql, i + 1)

\* variant: the version row is not written
InsertVersionSkipped(store, v) == store

\* INSERT OR REPLACE INTO schema_version (version) VALUES (?)
InsertVersion(store, v) ==
    [store EXCEPT !.schema_version = @ \cup {v}]

\* variant: the version table is never found
get_schema_version_no_table(store) == 0

get_schema_version(store) ==
    IF "schema_version" \notin store.schema THEN 0
    ELSE IF store.schema_version = {} THEN 0
    ELSE Max(store.schema_version)

\* what the store file holds, read off the persisted state directly
PersistedVersion(store) ==
    IF "schema_version" \in store.schema /\ store.schema_version # {}
    THEN Max(store.schema_version) ELSE 0

LatestVersion == Max({MIGRATIONS[i].version : i \in 1..Len(MIGRATIONS)})

\* variant: statements run outside the transaction stay after a failure
RollbackKeepsWork(persisted, working) ==
    IF working = NoTx THEN persisted ELSE working

\* a transaction dropped without commit is rolled back: the persisted store
\* stays as it was
Rollback(persisted, working) == persisted

\* variant: the commit persists everything but the version rows
CommitLosesVersions(persisted, working) == [working EXCEPT !.schema_version = {}]

\* tx.commit(): the working copy becomes the persisted store
CommitTx(persisted, working) == working

Ok(v) == [tag |-> "Ok", value |-> v]
Err(e) == [tag |-> "Err", value |-> e]

(***************************************************************************)
(* Entity rows and the constraints the schema of migration 1 declares.     *)
(* sqlx opens SQLite connections with foreign_keys = ON, so REFERENCES     *)
(* clauses are enforced and ON DELETE CASCADE is carried out.              *)
(***************************************************************************)
SessionIds == {"s1", "s2"}
AgentIds == {"a1"}
\* the ids AUTOINCREMENT hands out, in this order
InteractionIds == {1}
FileChangeIds == {1}

\* values callers try to write, declared and undeclared ones
SessionStatusInputs == {"active", "completed", "archived"}
AgentTypeInputs == {"claude", "gemini"}
AgentStatusInputs == {"running", "completed", "sleeping"}
\* a column without NOT NULL also takes NULL: a column value is <<>> for
\* NULL and <<v>> for the value v
NULL == <<>>
Value(v) == <<v>>
ProgressInputs == {Value(-1), Value(40), Value(150)}
InteractionTypeInputs == {"question", "shout"}
ChangeTypeInputs == {"modified", "moved"}
LinesInputs == {-1, 3}
RetainDaysInputs == {0, 1}

Ids(rows) == { r.id : r \in rows }

Rows(store) ==
    Cardinality(store.sessions) + Cardinality(store.agents)
      + Cardinality(store.interactions) + Cardinality(store.file_changes)

\* the errors SQLite reports for a violated constraint (SQLITE_CONSTRAINT)
CheckFailed == "CHECK constraint failed"
UniqueFailed == "UNIQUE constraint failed"
ForeignKeyFailed == "FOREIGN KEY constraint failed"
ConstraintViolations == {CheckFailed, UniqueFailed, ForeignKeyFailed}

\* variant: foreign keys are not enforced
SessionExistsUnchecked(store, session_id) == TRUE

\* FOREIGN KEY(session_id) REFERENCES sessions(id)
SessionExists(store, session_id) == session_id \in Ids(store.sessions)

\* FOREIGN KEY(agent_id) REFERENCES agents(id)
AgentExists(store, agent_id) == agent_id \in Ids(store.agents)

\* variant: the table has no CHECK on status
SessionChecksDropped(row) == TRUE

\* CREATE TABLE sessions: CHECK (status IN ...)
SessionChecks(row) == row.status \in SessionStatuses

\* CREATE TABLE sessions: CHECK, PRIMARY KEY
SessionRowOk(store, row) ==
    /\ SessionChecks(row)
    /\ row.id \notin Ids(store.sessions)

SessionRowError(store, row) ==
    IF ~SessionChecks(row) THEN CheckFailed ELSE UniqueFailed

\* CREATE TABLE agents: the three CHECKs.  A CHECK fails only when its
\* expression is false; on a NULL progress it is NULL, which passes.
AgentChecks(row) ==
    /\ row.agent_type \in AgentTypes
    /\ row.status \in AgentStatuses
    /\ row.progress = NULL \/ (row.progress[1] >= 0 /\ row.progress[1] <= 100)

\* CREATE TABLE agents: CHECKs, PRIMARY KEY, foreign key
AgentRowOk(store, row) ==
    /\ AgentChecks(row)
    /\ row.id \notin Ids(store.agents)
    /\ SessionExists(store, row.session_id)

AgentRowError(store, row) ==
    IF ~AgentChecks(row) THEN CheckFailed
    ELSE IF row.id \in Ids(store.agents) THEN UniqueFailed
    ELSE ForeignKeyFailed

\* CREATE TABLE interactions: CHECK (type IN ...), foreign keys
InteractionRowOk(store, row) ==
    /\ row.type \in InteractionTypes
    /\ AgentExists(store, row.agent_id)
    /\ SessionExists(store, row.session_id)

InteractionRowError(store, row) ==
    IF row.type \notin InteractionTypes THEN CheckFailed ELSE ForeignKeyFailed

\* CREATE TABLE file_changes: CHECK (change_type IN ...), foreign keys
FileChangeRowOk(store, row) ==
    /\ row.change_type \in ChangeTypes
    /\ AgentExists(store, row.agent_id)
    /\ SessionExists(store, row.session_id)

FileChangeRowError(store, row) ==
    IF row.change_type \notin ChangeTypes THEN CheckFailed ELSE ForeignKeyFailed

\* variant: only the session rows go
DeleteWithoutCascade(store, ids) ==
    [store EXCEPT !.sessions = { r \in @ : r.id \notin ids }]

\* rows removed with the sessions ids: ON DELETE CASCADE from sessions to
\* agents, interactions and file_changes, and from agents to the latter two
CascadeDelete(store, ids) ==
    LET gone_agents == { a.id : a \in { x \in store.agents : x.session_id \in ids } }
        Dependent(r) == r.session_id \in ids \/ r.agent_id \in gone_agents
    IN [store EXCEPT
          !.sessions = { r \in @ : r.id \notin ids },
          !.agents = { r \in @ : r.id \notin gone_agents },
          !.interactions = { r \in @ : ~Dependent(r) },
          !.file_changes = { r \in @ : ~Dependent(r) }]

\* variant: the comparison is turned around (started_at > ?)
OldSessionsNewer(store, bound) ==
    { r \in store.sessions :
        r.status \in {"completed", "failed"} /\ TextLess(bound, r.started_at) }

\* WHERE status IN ('completed', 'failed') AND started_at < ?
OldSessions(store, bound) ==
    { r \in store.sessions :
        r.status \in {"completed", "failed"} /\ TextLess(r.started_at, bound) }

\* variant: the sweep takes every old interaction (no NOT IN condition)
OldInteractions(store, bound) ==
    { r \in store.interactions : TextLess(r.timestamp, bound) }

\* WHERE timestamp < ? AND session_id NOT IN (SELECT id FROM sessions)
OrphanedInteractions(store, bound) ==
    { r \in store.interactions :
        TextLess(r.timestamp, bound) /\ r.session_id \notin Ids(store.sessions) }

\* variant: answered questions are counted as pending too
StatsQueryAnsweredToo(store, n) ==
    CASE n = 1 -> Cardinality(store.sessions)
      [] n = 2 -> Cardinality({ a \in store.agents :
                                  a.status \in {"initializing", "running", "waiting"} })
      [] n = 3 -> Cardinality({ i \in store.interactions :
                                  i.type = "question" /\ i.requires_response })
      [] n = 4 -> Cardinality(store.interactions)

\* get_stats: the n-th of its four SELECT COUNT(*) statements
StatsQuery(store, n) ==
    CASE n = 1 -> Cardinality(store.sessions)
      [] n = 2 -> Cardinality({ a \in store.agents :
                                  a.status \in {"initializing", "running", "waiting"} })
      [] n = 3 -> Cardinality({ i \in store.interactions :
                                  i.type = "question" /\ i.requires_response
                                    /\ i.responded_at = NULL })
      [] n = 4 -> Cardinality(store.interactions)

\* struct DatabaseStats
DatabaseStats(counts, version) ==
    [ sessions_count |-> counts[1],
      active_agents_count |-> counts[2],
      pending_questions_count |-> counts[3],
      total_interactions_count |-> counts[4],
      schema_version |-> version ]

\* get_stats on a store that no one writes to meanwhile
get_stats(store) ==
    DatabaseStats([n \in 1..4 |-> StatsQuery(store, n)], get_schema_version(store))

\* no get_stats call in progress
NoStats == [n |-> 0, counts |-> <<>>, rest |-> TRUE]

\* variant: `&&` in place of `||`
CleanupMessageBothRequired(deleted_sessions, deleted_interactions) ==
    IF deleted_sessions > 0 /\ deleted_interactions > 0
    THEN <<"Cleaned up", deleted_sessions, deleted_interactions>>
    ELSE <<"No old data to clean up">>

\* the line cleanup_old_sessions prints
CleanupMessage(deleted_sessions, deleted_interactions) ==
    IF deleted_sessions > 0 \/ deleted_interactions > 0
    THEN <<"Cleaned up", deleted_sessions, deleted_interactions>>
    ELSE <<"No old data to clean up">>

\* cleanup_old_sessions returns Result<()>
CleanupReturn(deleted_sessions, deleted_interactions) == Ok(<<>>)

Outcome(ret, out) == [ret |-> ret, out |-> out]
NoOutput == <<>>

(***************************************************************************)
(* Initial state: the store file does not exist yet, nothing was opened.   *)
(* The clock starts in the second half of day 0, so that its first advance *)
(* crosses midnight.                                                       *)
(***************************************************************************)
Init ==
    /\ db = EmptyStore
    /\ now = Instant(0, 1)
    /\ lock = {}
    /\ pc = [h \in Handles |-> "init"]
    /\ current_version = [h \in Handles |-> 0]
    /\ idx = [h \in Handles |-> 1]
    /\ tx = [h \in Handles |-> NoTx]
    /\ cpc = [h \in Handles |-> "idle"]
    /\ cutoff = [h \in Handles |-> Instant(0, 0)]
    /\ deleted = [h \in Handles |-> <<0, 0>>]
    /\ executed = [h \in Handles |-> {}]
    /\ commits = [v \in {MIGRATIONS[i].version : i \in 1..Len(MIGRATIONS)} |-> 0]
    /\ failed_at = [h \in Handles |-> 0]
    /\ uptodate_at_start = [h \in Handles |-> FALSE]
    /\ snap = [h \in Handles |-> NoTx]
    /\ stats = [h \in Handles |-> NoStats]
    /\ last = Outcome(Ok(<<>>), NoOutput)

(***************************************************************************)
(* Database::new.  pc[h] = "open" is the return of Ok(db), pc[h] =         *)
(* "failed" the return of an error through one of the `?`.                 *)
(***************************************************************************)
\* a get_stats call that is between two of its queries when the persisted
\* store changes has not seen the store at rest
StatsDisturbed ==
    stats' = [h \in Handles |->
                IF db' # db /\ stats[h].n > 0
                THEN [stats[h] EXCEPT !.rest = FALSE]
                ELSE stats[h]]

OpenFrame ==
    /\ UNCHANGED <<now, cpc, cutoff, deleted, snap, last>>
    /\ StatsDisturbed

NoFailure == UNCHANGED failed_at
FailureOf(h) == failed_at' = [failed_at EXCEPT ![h] = MIGRATIONS[idx[h]].version]

\* SqlitePool::connect (mode=rwc creates the file when absent)
Connect(h) ==
    /\ pc[h] = "init"
    /\ \E ok \in BOOLEAN :
         pc' = [pc EXCEPT ![h] = IF ok THEN "connected" ELSE "failed"]
    /\ uptodate_at_start' =
         [uptodate_at_start EXCEPT ![h] = (PersistedVersion(db) >= LatestVersion)]
    /\ UNCHANGED <<db, lock, current_version, idx, tx, executed, commits, failed_at>>
    /\ OpenFrame

\* variant: the version is not read and the loop is always entered
ReadVersionSkipped(h) ==
    /\ pc[h] = "connected"
    /\ pc' = [pc EXCEPT ![h] = "loop"]
    /\ UNCHANGED <<db, lock, current_version, idx, tx, executed, commits, failed_at,
                   uptodate_at_start>>
    /\ OpenFrame

\* migrate: read the version, return at once when the store is up to date
ReadVersion(h) ==
    /\ pc[h] = "connected"
    /\ \E ok \in BOOLEAN :
         IF ok
         THEN LET v == get_schema_version(db) IN
              /\ current_version' = [current_version EXCEPT ![h] = v]
              /\ pc' = [pc EXCEPT ![h] = IF v >= SCHEMA_VERSION THEN "open" ELSE "loop"]
         ELSE /\ pc' = [pc EXCEPT ![h] = "failed"]
              /\ UNCHANGED current_version
    /\ UNCHANGED <<db, lock, idx, tx, executed, commits, failed_at, uptodate_at_start>>
    /\ OpenFrame

\* migrate: one turn of `for migration in MIGRATIONS`
MigrateNext(h) ==
    /\ pc[h] = "loop"
    /\ IF idx[h] > Len(MIGRATIONS)
       THEN /\ pc' = [pc EXCEPT ![h] = "open"]
            /\ UNCHANGED idx
       ELSE IF MIGRATIONS[idx[h]].version > current_version[h]
            THEN /\ pc' = [pc EXCEPT ![h] = "apply"]
                 /\ UNCHANGED idx
            ELSE /\ idx' = [idx EXCEPT ![h] = @ + 1]
                 /\ UNCHANGED pc
    /\ UNCHANGED <<db, lock, current_version, tx, executed, commits, failed_at, uptodate_at_start>>
    /\ OpenFrame

\* variant: the error is swallowed and new returns the handle
MigrationErrorIgnored(h) ==
    /\ pc' = [pc EXCEPT ![h] = "open"]
    /\ db' = Rollback(db, tx[h])
    /\ tx' = [tx EXCEPT ![h] = NoTx]
    /\ lock' = lock \ {h}

\* a `?` inside the migration transaction: the transaction is dropped and
\* new returns the error
MigrationFails(h) ==
    /\ pc' = [pc EXCEPT ![h] = "failed"]
    /\ db' = Rollback(db, tx[h])
    /\ tx' = [tx EXCEPT ![h] = NoTx]
    /\ lock' = lock \ {h}

\* migrate: pool.begin() and the execution of the migration's script
ExecuteScript(h) ==
    /\ pc[h] = "apply"
    /\ lock = {}
    /\ LET m == MIGRATIONS[idx[h]]
           r == ExecuteSql(db.schema, m.sql, 1)
       IN /\ executed' = [executed EXCEPT ![h] = @ \cup {m.version}]
          /\ \E io_ok \in BOOLEAN :
               IF io_ok /\ r.ok
               THEN /\ tx' = [tx EXCEPT ![h] = [db EXCEPT !.schema = r.schema]]
                    /\ lock' = {h}
                    /\ pc' = [pc EXCEPT ![h] = "scripted"]
                    /\ UNCHANGED db
                    /\ NoFailure
               ELSE MigrationFails(h) /\ FailureOf(h)
    /\ UNCHANGED <<current_version, idx, commits, uptodate_at_start>>
    /\ OpenFrame

\* migrate: record the version inside the same transaction
RecordVersion(h) ==
    /\ pc[h] = "scripted"
    /\ \E io_ok \in BOOLEAN :
         IF io_ok
         THEN /\ tx' = [tx EXCEPT ![h] = InsertVersion(@, MIGRATIONS[idx[h]].version)]
              /\ pc' = [pc EXCEPT ![h] = "versioned"]
              /\ UNCHANGED <<db, lock>>
              /\ NoFailure
         ELSE MigrationFails(h) /\ FailureOf(h)
    /\ UNCHANGED <<current_version, idx, executed, commits, uptodate_at_start>>
    /\ OpenFrame

\* migrate: tx.commit()
CommitMigration(h) ==
    /\ pc[h] = "versioned"
    /\ \E io_ok \in BOOLEAN :
         IF io_ok
         THEN /\ db' = CommitTx(db, tx[h])
              /\ tx' = [tx EXCEPT ![h] = NoTx]
              /\ lock' = {}
              /\ commits' = [commits EXCEPT ![MIGRATIONS[idx[h]].version] = @ + 1]
              /\ idx' = [idx EXCEPT ![h] = @ + 1]
              /\ pc' = [pc EXCEPT ![h] = "loop"]
              /\ NoFailure
         ELSE /\ MigrationFails(h)
              /\ FailureOf(h)
              /\ UNCHANGED <<commits, idx>>
    /\ UNCHANGED <<current_version, executed, uptodate_at_start>>
    /\ OpenFrame

(***************************************************************************)
(* Entity operations: single SQL statements issued through pool() on a     *)
(* usable handle.  Each is atomic and needs the write lock.                *)
(***************************************************************************)
CanWrite(h) == pc[h] = "open" /\ lock = {} /\ Rows(db) < MaxRows

EntityFrame ==
    /\ UNCHANGED <<now, lock, pc, current_version, idx, tx, cpc, cutoff,
                   deleted, executed, commits, failed_at, uptodate_at_start, snap>>
    /\ StatsDisturbed

\* the statement fails: nothing is written
Rejected(error) ==
    /\ last' = Outcome(Err(error), NoOutput)
    /\ UNCHANGED db

InsertSessionRow(h, id, status, started_at) ==
    /\ CanWrite(h)
    /\ LET row == [id |-> id, status |-> status, started_at |-> started_at] IN
       IF SessionRowOk(db, row)
       THEN /\ db' = [db EXCEPT !.sessions = @ \cup {row}]
            /\ last' = Outcome(Ok(<<>>), NoOutput)
       ELSE Rejected(SessionRowError(db, row))
    /\ EntityFrame

InsertSession(h) ==
    \E id \in SessionIds, status \in SessionStatusInputs,
       started_at \in {CURRENT_TIMESTAMP(now), Rfc3339(now)} :
         InsertSessionRow(h, id, status, started_at)

\* UPDATE sessions SET status = ? WHERE id = ?: the CHECK of the table is
\* evaluated on the changed row; no row with that id is no error
UpdateSessionStatusRow(h, id, status) ==
    /\ pc[h] = "open" /\ lock = {}
    /\ LET changed == { [r EXCEPT !.status = status] : r \in { x \in db.sessions : x.id = id } }
       IN IF \A row \in changed : SessionChecks(row)
          THEN /\ db' = [db EXCEPT !.sessions = { r \in @ : r.id # id } \cup changed]
               /\ last' = Outcome(Ok(<<>>), NoOutput)
          ELSE Rejected(CheckFailed)
    /\ EntityFrame

UpdateSessionStatus(h) ==
    \E id \in SessionIds, status \in SessionStatusInputs :
        UpdateSessionStatusRow(h, id, status)

InsertAgentRow(h, id, session_id, agent_type, status, progress) ==
    /\ CanWrite(h)
    /\ LET row == [id |-> id, session_id |-> session_id, agent_type |-> agent_type,
                   status |-> status, progress |-> progress] IN
       IF AgentRowOk(db, row)
       THEN /\ db' = [db EXCEPT !.agents = @ \cup {row}]
            /\ last' = Outcome(Ok(<<>>), NoOutput)
       ELSE Rejected(AgentRowError(db, row))
    /\ EntityFrame

InsertAgent(h) ==
    \E id \in AgentIds, session_id \in SessionIds, agent_type \in AgentTypeInputs,
       status \in AgentStatusInputs, progress \in ProgressInputs :
         InsertAgentRow(h, id, session_id, agent_type, status, progress)

\* INSERT INTO agents with an explicit NULL for progress
InsertAgentNullProgress(h) ==
    \E id \in AgentIds, session_id \in SessionIds, agent_type \in AgentTypeInputs,
       status \in AgentStatusInputs :
         InsertAgentRow(h, id, session_id, agent_type, status, NULL)

\* UPDATE agents SET progress = ? WHERE id = ?: the CHECKs of the table are
\* evaluated on the changed row
UpdateProgress(h) ==
    /\ pc[h] = "open" /\ lock = {}
    /\ \E a \in db.agents, progress \in ProgressInputs \cup {NULL} :
         LET row == [a EXCEPT !.progress = progress] IN
         IF AgentChecks(row)
         THEN /\ db' = [db EXCEPT !.agents = (@ \ {a}) \cup {row}]
              /\ last' = Outcome(Ok(<<>>), NoOutput)
         ELSE Rejected(CheckFailed)
    /\ EntityFrame

InsertInteractionRow(h, agent_id, session_id, type, requires_response) ==
    /\ CanWrite(h)
    /\ db.seq_interactions + 1 \in InteractionIds
    /\ LET row == [id |-> db.seq_interactions + 1, agent_id |-> agent_id,
                   session_id |-> session_id, type |-> type,
                   requires_response |-> requires_response,
                   responded_at |-> NULL,
                   timestamp |-> CURRENT_TIMESTAMP(now)] IN
       IF InteractionRowOk(db, row)
       THEN /\ db' = [db EXCEPT !.interactions = @ \cup {row},
                                !.seq_interactions = @ + 1]
            /\ last' = Outcome(Ok(<<>>), NoOutput)
       ELSE Rejected(InteractionRowError(db, row))
    /\ EntityFrame

InsertInteraction(h) ==
    \E agent_id \in AgentIds, session_id \in SessionIds,
       type \in InteractionTypeInputs, requires_response \in BOOLEAN :
         InsertInteractionRow(h, agent_id, session_id, type, requires_response)

InsertFileChangeRow(h, agent_id, session_id, change_type, lines_added) ==
    /\ CanWrite(h)
    /\ db.seq_file_changes + 1 \in FileChangeIds
    /\ LET row == [id |-> db.seq_file_changes + 1, agent_id |-> agent_id,
                   session_id |-> session_id, change_type |-> change_type,
                   lines_added |-> lines_added, lines_removed |-> 0] IN
       IF FileChangeRowOk(db, row)
       THEN /\ db' = [db EXCEPT !.file_changes = @ \cup {row},
                                !.seq_file_changes = @ + 1]
            /\ last' = Outcome(Ok(<<>>), NoOutput)
       ELSE Rejected(FileChangeRowError(db, row))
    /\ EntityFrame

InsertFileChange(h) ==
    \E agent_id \in AgentIds, session_id \in SessionIds,
       change_type \in ChangeTypeInputs, lines_added \in LinesInputs :
         InsertFileChangeRow(h, agent_id, session_id, change_type, lines_added)

\* UPDATE interactions SET responded_at = ? WHERE id = ?
RecordResponse(h) ==
    /\ pc[h] = "open" /\ lock = {}
    /\ \E i \in db.interactions :
         /\ db' = [db EXCEPT !.interactions =
                      (@ \ {i}) \cup {[i EXCEPT !.responded_at = CURRENT_TIMESTAMP(now)]}]
         /\ last' = Outcome(Ok(<<>>), NoOutput)
    /\ EntityFrame

\* DELETE FROM sessions WHERE id = ?
DeleteSession(h) ==
    /\ pc[h] = "open" /\ lock = {}
    /\ \E id \in SessionIds :
         /\ db' = CascadeDelete(db, {id})
         /\ last' = Outcome(Ok(<<>>), NoOutput)
    /\ EntityFrame

\* the clock advances
Tick ==
    /\ 2 * now.day + now.tod <= MaxTicks
    /\ now' = IF now.tod = 0 THEN Instant(now.day, 1) ELSE Instant(now.day + 1, 0)
    /\ UNCHANGED <<db, lock, pc, current_version, idx, tx, cpc, cutoff, deleted,
                   executed, commits, failed_at, uptodate_at_start, snap, stats, last>>

(***************************************************************************)
(* Database::get_stats: four counting statements, then the version, each   *)
(* on the pool and on its own; other statements may run between them.      *)
(***************************************************************************)
StatsFrame == UNCHANGED <<db, now, lock, pc, current_version, idx, tx, cpc, cutoff,
                          deleted, executed, commits, failed_at, uptodate_at_start,
                          snap>>

\* a `?` of get_stats: the error is returned, no statistics
StatsFails(h) ==
    /\ stats' = [stats EXCEPT ![h] = NoStats]
    /\ last' = Outcome(Err("QueryError"), NoOutput)

\* the next SELECT COUNT(*)
GetStatsQuery(h) ==
    /\ pc[h] = "open"
    /\ stats[h].n < 4
    /\ \E io_ok \in BOOLEAN :
         IF io_ok
         THEN /\ stats' = [stats EXCEPT ![h].n = @ + 1,
                                        ![h].counts = Append(@, StatsQuery(db, stats[h].n + 1))]
              /\ UNCHANGED last
         ELSE StatsFails(h)
    /\ StatsFrame

\* get_schema_version and the return of Ok(DatabaseStats { .. })
GetStatsReturn(h) ==
    /\ pc[h] = "open"
    /\ stats[h].n = 4
    /\ \E io_ok \in BOOLEAN :
         IF io_ok
         THEN /\ stats' = [stats EXCEPT ![h] = NoStats]
              /\ last' = Outcome(Ok(DatabaseStats(stats[h].counts, get_schema_version(db))),
                                 NoOutput)
         ELSE StatsFails(h)
    /\ StatsFrame

(***************************************************************************)
(* Database::cleanup_old_sessions                                          *)
(***************************************************************************)
CleanupFrame ==
    /\ UNCHANGED <<now, pc, current_version, idx, executed, commits,
                   failed_at, uptodate_at_start>>
    /\ StatsDisturbed

\* variant: what the transaction did so far is kept
CleanupFailsKeepsPartial(h) ==
    /\ db' = IF tx[h] = NoTx THEN db ELSE tx[h]
    /\ tx' = [tx EXCEPT ![h] = NoTx]
    /\ lock' = lock \ {h}
    /\ cpc' = [cpc EXCEPT ![h] = "idle"]
    /\ cutoff' = [cutoff EXCEPT ![h] = Instant(0, 0)]
    /\ deleted' = [deleted EXCEPT ![h] = <<0, 0>>]
    /\ snap' = [snap EXCEPT ![h] = NoTx]
    /\ last' = Outcome(Err("QueryError"), NoOutput)

\* the call fails: the transaction is dropped and the error returned
CleanupFails(h) ==
    /\ db' = Rollback(db, tx[h])
    /\ tx' = [tx EXCEPT ![h] = NoTx]
    /\ lock' = lock \ {h}
    /\ cpc' = [cpc EXCEPT ![h] = "idle"]
    /\ cutoff' = [cutoff EXCEPT ![h] = Instant(0, 0)]
    /\ deleted' = [deleted EXCEPT ![h] = <<0, 0>>]
    /\ snap' = [snap EXCEPT ![h] = NoTx]
    /\ last' = Outcome(Err("QueryError"), NoOutput)

\* cutoff_date, pool.begin() and the DELETE FROM sessions
CleanupDeleteSessions(h) ==
    /\ pc[h] = "open"
    /\ cpc[h] = "idle"
    /\ lock = {}
    /\ \E days_to_keep \in RetainDaysInputs, io_ok \in BOOLEAN :
         LET cutoff_date == CutoffDate(now, days_to_keep)
             old == OldSessions(db, Rfc3339(cutoff_date))
         IN IF io_ok
            THEN /\ cutoff' = [cutoff EXCEPT ![h] = cutoff_date]
                 /\ tx' = [tx EXCEPT ![h] = CascadeDelete(db, Ids(old))]
                 /\ deleted' = [deleted EXCEPT ![h] = <<Cardinality(old), 0>>]
                 /\ lock' = {h}
                 /\ cpc' = [cpc EXCEPT ![h] = "sessions_deleted"]
                 /\ snap' = [snap EXCEPT ![h] = db]
                 /\ UNCHANGED <<db, last>>
            ELSE CleanupFails(h)
    /\ CleanupFrame

\* the DELETE FROM interactions of the orphan sweep
CleanupDeleteOrphans(h) ==
    /\ cpc[h] = "sessions_deleted"
    /\ \E io_ok \in BOOLEAN :
         IF io_ok
         THEN LET orphans == OrphanedInteractions(tx[h], Rfc3339(cutoff[h])) IN
              /\ tx' = [tx EXCEPT ![h].interactions = @ \ orphans]
              /\ deleted' = [deleted EXCEPT ![h] = <<@[1], Cardinality(orphans)>>]
              /\ cpc' = [cpc EXCEPT ![h] = "orphans_deleted"]
              /\ UNCHANGED <<db, lock, cutoff, snap, last>>
         ELSE CleanupFails(h)
    /\ CleanupFrame

\* tx.commit(), the printed line and the return
CleanupCommit(h) ==
    /\ cpc[h] = "orphans_deleted"
    /\ \E io_ok \in BOOLEAN :
         IF io_ok
         THEN /\ db' = CommitTx(db, tx[h])
              /\ tx' = [tx EXCEPT ![h] = NoTx]
              /\ lock' = {}
              /\ cpc' = [cpc EXCEPT ![h] = "idle"]
              /\ cutoff' = [cutoff EXCEPT ![h] = Instant(0, 0)]
              /\ deleted' = [deleted EXCEPT ![h] = <<0, 0>>]
              /\ snap' = [snap EXCEPT ![h] = NoTx]
              /\ last' = Outcome(CleanupReturn(deleted[h][1], deleted[h][2]),
                                 CleanupMessage(deleted[h][1], deleted[h][2]))
         ELSE CleanupFails(h)
    /\ CleanupFrame

(***************************************************************************)
(* Database::close.  SqlitePool::close marks the pool closed at once, so   *)
(* that every later acquire fails with PoolClosed, and its future resolves *)
(* when the connections that are checked out have come back.               *)
(***************************************************************************)
CloseFrame == UNCHANGED <<db, now, lock, current_version, idx, tx, cpc, cutoff, deleted,
                          executed, commits, failed_at, uptodate_at_start, snap>>

\* self.pool.close(): the pool is marked closed
ClosePool(h) ==
    /\ pc[h] = "open"
    /\ pc' = [pc EXCEPT ![h] = "closing"]
    /\ UNCHANGED <<stats, last>>
    /\ CloseFrame

\* variant: close returns while a transaction still holds its connection
CloseReturnsAtOnce(h) ==
    /\ pc[h] = "closing"
    /\ pc' = [pc EXCEPT ![h] = "closed"]
    /\ UNCHANGED <<stats, last>>
    /\ CloseFrame

\* .await of close: the connection of the handle's transaction, if any, has
\* been returned
CloseReturns(h) ==
    /\ pc[h] = "closing"
    /\ tx[h] = NoTx
    /\ pc' = [pc EXCEPT ![h] = "closed"]
    /\ UNCHANGED <<stats, last>>
    /\ CloseFrame

\* a statement, pool.begin() of cleanup_old_sessions or a query of get_stats
\* on a closed pool: the acquire fails and the call returns the error
ClosedCall(h) ==
    /\ pc[h] \in {"closing", "closed"}
    /\ stats' = [stats EXCEPT ![h] = NoStats]
    /\ last' = Outcome(Err("PoolClosed"), NoOutput)
    /\ UNCHANGED pc
    /\ CloseFrame

\* one handle, shared by the tasks of the process that opened it
Next ==
    \/ \E h \in {Main} : Connect(h)
    \/ \E h \in {Main} : ReadVersion(h)
    \/ \E h \in {Main} : MigrateNext(h)
    \/ \E h \in {Main} : ExecuteScript(h)
    \/ \E h \in {Main} : RecordVersion(h)
    \/ \E h \in {Main} : CommitMigration(h)
    \/ \E h \in {Main} : InsertSession(h)
    \/ \E h \in {Main} : InsertAgent(h)
    \/ \E h \in {Main} : InsertInteraction(h)
    \/ \E h \in {Main} : InsertFileChange(h)
    \/ \E h \in {Main} : DeleteSession(h)
    \/ \E h \in {Main} : CleanupDeleteSessions(h)
    \/ \E h \in {Main} : CleanupDeleteOrphans(h)
    \/ \E h \in {Main} : CleanupCommit(h)
    \/ Tick

Spec == Init /\ [][Next]_vars

\* several Database::new calls on the same path, interleaved
NextOpens ==
    \/ \E h \in Handles : Connect(h)
    \/ \E h \in Handles : ReadVersion(h)
    \/ \E h \in Handles : MigrateNext(h)
    \/ \E h \in Handles : ExecuteScript(h)
    \/ \E h \in Handles : RecordVersion(h)
    \/ \E h \in Handles : CommitMigration(h)

SpecOpens == Init /\ [][NextOpens]_vars

\* no Database::new call is between its connect and its return
NoOpenInProgress == \A g \in Handles : pc[g] \in {"init", "open", "failed"}

\* several Database::new calls on the same path, one after the other
NextOpensInTurn ==
    \/ \E h \in Handles : NoOpenInProgress /\ Connect(h)
    \/ \E h \in Handles : ReadVersion(h)
    \/ \E h \in Handles : MigrateNext(h)
    \/ \E h \in Handles : ExecuteScript(h)
    \/ \E h \in Handles : RecordVersion(h)
    \/ \E h \in Handles : CommitMigration(h)

SpecOpensInTurn == Init /\ [][NextOpensInTurn]_vars

\* one handle and the statements of the entity store, without retention
NextStore ==
    \/ \E h \in {Main} : Connect(h)
    \/ \E h \in {Main} : ReadVersion(h)
    \/ \E h \in {Main} : MigrateNext(h)
    \/ \E h \in {Main} : ExecuteScript(h)
    \/ \E h \in {Main} : RecordVersion(h)
    \/ \E h \in {Main} : CommitMigration(h)
    \/ \E h \in {Main} : InsertSession(h)
    \/ \E h \in {Main} : UpdateSessionStatus(h)
    \/ \E h \in {Main} : InsertAgent(h)
    \/ \E h \in {Main} : InsertAgentNullProgress(h)
    \/ \E h \in {Main} : UpdateProgress(h)
    \/ \E h \in {Main} : InsertInteraction(h)
    \/ \E h \in {Main} : InsertFileChange(h)
    \/ \E h \in {Main} : DeleteSession(h)

SpecStore == Init /\ [][NextStore]_vars

\* one handle: a task calls get_stats while others record sessions, agents,
\* questions and their answers
NextStats ==
    \/ \E h \in {Main} : Connect(h)
    \/ \E h \in {Main} : ReadVersion(h)
    \/ \E h \in {Main} : MigrateNext(h)
    \/ \E h \in {Main} : ExecuteScript(h)
    \/ \E h \in {Main} : RecordVersion(h)
    \/ \E h \in {Main} : CommitMigration(h)
    \/ \E h \in {Main} : InsertSession(h)
    \/ \E h \in {Main} : InsertAgent(h)
    \/ \E h \in {Main} : InsertInteraction(h)
    \/ \E h \in {Main} : RecordResponse(h)
    \/ \E h \in {Main} : GetStatsQuery(h)
    \/ \E h \in {Main} : GetStatsReturn(h)

SpecStats == Init /\ [][NextStats]_vars

\* one handle: the calls of the init command (new, cleanup_old_sessions,
\* get_stats, close) in any order and overlapping, among inserts
NextClose ==
    \/ \E h \in {Main} : Connect(h)
    \/ \E h \in {Main} : ReadVersion(h)
    \/ \E h \in {Main} : MigrateNext(h)
    \/ \E h \in {Main} : ExecuteScript(h)
    \/ \E h \in {Main} : RecordVersion(h)
    \/ \E h \in {Main} : CommitMigration(h)
    \/ \E h \in {Main} : InsertSession(h)
    \/ \E h \in {Main} : InsertAgent(h)
    \/ \E h \in {Main} : CleanupDeleteSessions(h)
    \/ \E h \in {Main} : CleanupDeleteOrphans(h)
    \/ \E h \in {Main} : CleanupCommit(h)
    \/ \E h \in {Main} : GetStatsQuery(h)
    \/ \E h \in {Main} : GetStatsReturn(h)
    \/ \E h \in {Main} : ClosePool(h)
    \/ \E h \in {Main} : CloseReturns(h)
    \/ \E h \in {Main} : ClosedCall(h)

SpecClose == Init /\ [][NextClose]_vars

\* the lifetime of a store: Database::new calls one after the other, and on
\* the handle of the first of them sessions, cleanup_old_sessions and close
NextLifetime ==
    \/ \E h \in Handles : NoOpenInProgress /\ Connect(h)
    \/ \E h \in Handles : ReadVersion(h)
    \/ \E h \in Handles : MigrateNext(h)
    \/ \E h \in Handles : ExecuteScript(h)
    \/ \E h \in Handles : RecordVersion(h)
    \/ \E h \in Handles : CommitMigration(h)
    \/ \E h \in {Main} : InsertSession(h)
    \/ \E h \in {Main} : CleanupDeleteSessions(h)
    \/ \E h \in {Main} : CleanupDeleteOrphans(h)
    \/ \E h \in {Main} : CleanupCommit(h)
    \/ \E h \in {Main} : ClosePool(h)
    \/ \E h \in {Main} : CloseReturns(h)
    \/ \E h \in {Main} : ClosedCall(h)

SpecLifetime == Init /\ [][NextLifetime]_vars

(***************************************************************************)
(* Properties                                                              *)
(***************************************************************************)
Versions == { MIGRATIONS[i].version : i \in 1..Len(MIGRATIONS) }

\* the instant a timestamp text denotes lies before the instant t
InstantBefore(text, t) ==
    \/ text[1] < t.day
    \/ text[1] = t.day /\ text[3] < t.tod

\* sessions in a terminal status that started before the instant t
TerminalBefore(store, t) ==
    { r \in store.sessions :
        r.status \in {"completed", "failed"} /\ InstantBefore(r.started_at, t) }

\* the step in which the cleanup of handle h commits and returns
CleanupCommitted(h) ==
    cpc[h] = "orphans_deleted" /\ cpc'[h] = "idle" /\ last'.ret.tag = "Ok"

\* C1: a handle returned by Database::new means the persisted schema version
\* is the highest version of the registry.
C1_OpenIsUpToDate ==
    \A h \in Handles : pc[h] = "open" => PersistedVersion(db) = LatestVersion

\* one open migrated the fresh store, another found it up to date
C1_Witness ==
    \E h, g \in Handles :
        /\ pc[h] = "open" /\ ~uptodate_at_start[h] /\ executed[h] # {}
        /\ pc[g] = "open" /\ uptodate_at_start[g]

\* C2: an open that starts on an up-to-date store executes no migration
\* script, commits nothing and leaves the persisted store as it was.
C2_Idempotent ==
    [][\A h \in Handles :
         (uptodate_at_start'[h]
            /\ <<pc[h], idx[h], tx[h]>> # <<pc'[h], idx'[h], tx'[h]>>)
         => (db' = db /\ executed'[h] = {} /\ commits' = commits /\ tx'[h] = NoTx)]_vars

\* a second open has returned on the store the first one migrated
C2_Witness ==
    \E h \in Handles :
        /\ uptodate_at_start[h] /\ pc[h] = "open"
        /\ \A v \in Versions : commits[v] = 1

\* C3: in the persisted store the objects of a migration are all there when
\* its version row is there, and none of them is there when it is not.
C3_MigrationAtomicity ==
    \A i \in 1..Len(MIGRATIONS) :
        IF MIGRATIONS[i].version \in db.schema_version
        THEN ObjectsOf(MIGRATIONS[i].sql) \subseteq db.schema
        ELSE ObjectsOf(MIGRATIONS[i].sql) \cap db.schema = {}

\* one open failed inside its transaction, another has script and version in
\* its uncommitted transaction, and the persisted store has neither
C3_Witness ==
    \E h, g \in Handles :
        /\ failed_at[h] # 0
        /\ pc[g] = "versioned" /\ tx[g].schema # {}
        /\ db.schema = {} /\ db.schema_version = {}

\* C4: when the transaction of a migration fails, the open ends with an
\* error, holds no transaction, ran no later migration, and the failing step
\* leaves the persisted store as it was.
C4_AbortOnFailure ==
    /\ [](\A h \in Handles :
            failed_at[h] # 0 =>
              /\ pc[h] = "failed"
              /\ tx[h] = NoTx /\ h \notin lock
              /\ \A v \in executed[h] : v <= failed_at[h])
    /\ [][\A h \in Handles :
            /\ failed_at'[h] # failed_at[h] => db' = db
            /\ pc[h] = "failed" => (pc'[h] = "failed" /\ executed'[h] = executed[h])]_vars

\* an open has failed in migration 1 and the store is still at version 0
C4_Witness ==
    \E h \in Handles :
        failed_at[h] = 1 /\ pc[h] = "failed" /\ PersistedVersion(db) = 0

\* C5: when cleanup commits, no completed or failed session that started
\* before the cutoff is left, nor any agent, interaction or file change of
\* such a session; if every session was such a one, the statistics count no
\* session and no active agent.
C5_CleanupRemovesOld ==
    [][\A h \in Handles :
         CleanupCommitted(h) =>
           LET old == Ids(TerminalBefore(snap[h], cutoff[h])) IN
           /\ TerminalBefore(db', cutoff[h]) = {}
           /\ Ids(db'.sessions) \cap old = {}
           /\ \A r \in db'.agents \cup db'.interactions \cup db'.file_changes :
                r.session_id \notin old
           /\ old = Ids(snap[h].sessions) =>
                /\ get_stats(db').sessions_count = 0
                /\ get_stats(db').active_agents_count = 0]_vars

\* both passes of a cleanup have run on a store whose old terminal session
\* had a running agent, and the agent went with the session
C5_Witness ==
    \E h \in Handles :
        /\ cpc[h] = "orphans_deleted"
        /\ \E s \in TerminalBefore(snap[h], cutoff[h]) :
             \E a \in snap[h].agents : a.session_id = s.id /\ a.status = "running"
        /\ tx[h].sessions = {} /\ tx[h].agents = {}
        /\ deleted[h] = <<1, 0>>

C7_CleanupAllOrNothing ==
    /\ [](\A h \in Handles : cpc[h] # "idle" => db = snap[h])
    /\ [][\A h \in Handles :
            /\ (cpc[h] # "idle" /\ cpc'[h] = "idle" /\ last'.ret.tag = "Err")
                 => db' = snap[h]
            /\ (cpc[h] = "idle" /\ last'.ret = Err("QueryError")) => db' = db]_vars

\* a cleanup has failed and the old terminal session and its agent are
\* still in the store
C7_Witness ==
    /\ last.ret = Err("QueryError")
    /\ \E s \in TerminalBefore(db, now) :
         \E a \in db.agents : a.session_id = s.id

\* C8 as stated: no open runs the script of a migration whose version row is
\* already committed.
C8_SerializedOpens ==
    [][\A h \in Handles :
         \A v \in executed'[h] \ executed[h] : v \notin db.schema_version]_vars

\* the step is a statement refused with a constraint violation: nothing is
\* written
RefusedStep ==
    /\ db' = db
    /\ last'.ret.tag = "Err"
    /\ last'.ret.value \in ConstraintViolations

\* C9: an insert of an agent, interaction or file change that names a
\* session or agent that does not exist fails with a constraint violation
\* and writes nothing.
C9_MissingParentRejected ==
    [][\/ RefusedStep
       \/ ~EntityFrame
       \/ \A h \in Handles, session_id \in SessionIds, agent_id \in AgentIds :
            /\ \A agent_type \in AgentTypeInputs, status \in AgentStatusInputs,
                  progress \in ProgressInputs \cup {NULL} :
                 ~ /\ session_id \notin Ids(db.sessions)
                   /\ InsertAgentRow(h, agent_id, session_id, agent_type, status, progress)
            /\ \A type \in InteractionTypeInputs, requires_response \in BOOLEAN :
                 ~ /\ session_id \notin Ids(db.sessions) \/ agent_id \notin Ids(db.agents)
                   /\ InsertInteractionRow(h, agent_id, session_id, type, requires_response)
            /\ \A change_type \in ChangeTypeInputs, lines_added \in LinesInputs :
                 ~ /\ session_id \notin Ids(db.sessions) \/ agent_id \notin Ids(db.agents)
                   /\ InsertFileChangeRow(h, agent_id, session_id, change_type, lines_added)]_vars

\* an insert was refused for its missing parent on a store that holds rows
C9_Witness ==
    /\ last.ret = Err(ForeignKeyFailed)
    /\ db.sessions # {} /\ db.agents = {}

\* every agent names a session of the store, every interaction and file
\* change a session and an agent of the store
ReferencesExist(store) ==
    /\ \A a \in store.agents : a.session_id \in Ids(store.sessions)
    /\ \A r \in store.interactions \cup store.file_changes :
         r.session_id \in Ids(store.sessions) /\ r.agent_id \in Ids(store.agents)

\* C10: references exist in the persisted store and in every transaction's
\* view of it, so a session never goes without its dependents.
C10_ReferentialIntegrity ==
    /\ ReferencesExist(db)
    /\ \A h \in Handles : tx[h] # NoTx => ReferencesExist(tx[h])

\* an interaction was written and went with its session or agent
C10_Witness ==
    /\ db.seq_interactions = 1 /\ db.interactions = {}
    /\ db.agents = {}

\* C11 as stated: the progress of every stored agent is a value between 0
\* and 100 inclusive.
C11_ProgressInRange ==
    \A a \in db.agents :
        a.progress # NULL /\ a.progress[1] >= 0 /\ a.progress[1] <= 100

\* C12 as stated: every stored file change has non-negative line counts.
C12_LinesNonNegative ==
    \A f \in db.file_changes : f.lines_added >= 0 /\ f.lines_removed >= 0

\* the step in which the get_stats call of handle h returns its statistics
StatsReturned(h) ==
    stats[h].n = 4 /\ stats'[h].n = 0 /\ last'.ret.tag = "Ok"

\* C13: when the store stayed at rest during a get_stats call, the call
\* returns the number of sessions, of agents that are initializing, running
\* or waiting, of questions that require a response and have none, of
\* interactions, and the persisted schema version.
C13_StatsAtRest ==
    [][\A h \in Handles :
         (StatsReturned(h) /\ stats[h].rest) =>
           LET answered_or_other ==
                   { i \in db.interactions :
                       i.type # "question" \/ ~i.requires_response
                         \/ i.responded_at # NULL }
               idle_agents ==
                   { a \in db.agents : a.status \in {"completed", "failed", "paused"} }
           IN last'.ret.value =
                [ sessions_count |-> Cardinality(db.sessions),
                  active_agents_count |->
                      Cardinality(db.agents) - Cardinality(idle_agents),
                  pending_questions_count |->
                      Cardinality(db.interactions) - Cardinality(answered_or_other),
                  total_interactions_count |-> Cardinality(db.interactions),
                  schema_version |-> PersistedVersion(db) ]]_vars

\* statistics were returned on a store whose only question has been
\* answered: one session, one running agent, no pending question
C13_Witness ==
    /\ last.ret = Ok([ sessions_count |-> 1, active_agents_count |-> 1,
                       pending_questions_count |-> 0,
                       total_interactions_count |-> 1, schema_version |-> 1 ])
    /\ \E i \in db.interactions :
         i.type = "question" /\ i.requires_response /\ i.responded_at # NULL
    /\ \E a \in db.agents : a.status = "running"

EnumsDeclared(store) ==
    /\ \A r \in store.sessions :
         r.status \in {"active", "completed", "failed", "paused"}
    /\ \A r \in store.agents :
         /\ r.agent_type \in {"claude", "gpt", "jules"}
         /\ r.status \in {"initializing", "running", "waiting", "completed",
                           "failed", "paused"}
    /\ \A r \in store.interactions :
         r.type \in {"question", "response", "status", "log", "error", "checkpoint"}
    /\ \A r \in store.file_changes :
         r.change_type \in {"created", "modified", "deleted", "renamed"}

\* C15: the enumerated columns of the persisted store only hold declared
\* values, and an insert or a status update that carries an undeclared
\* value is refused with a constraint violation and writes nothing.
C15_EnumsOnlyDeclared ==
    /\ []EnumsDeclared(db)
    /\ [][\/ RefusedStep
          \/ ~EntityFrame
          \/ \A h \in Handles, session_id \in SessionIds, agent_id \in AgentIds :
               /\ \A status \in SessionStatusInputs \ {"active", "completed", "failed", "paused"} :
                    /\ \A started_at \in {CURRENT_TIMESTAMP(now), Rfc3339(now)} :
                         ~InsertSessionRow(h, session_id, status, started_at)
                    /\ session_id \in Ids(db.sessions)
                         => ~UpdateSessionStatusRow(h, session_id, status)
               /\ \A agent_type \in AgentTypeInputs, status \in AgentStatusInputs,
                     progress \in ProgressInputs \cup {NULL} :
                    ~ /\ \/ agent_type \notin {"claude", "gpt", "jules"}
                         \/ status \notin {"initializing", "running", "waiting",
                                            "completed", "failed", "paused"}
                      /\ InsertAgentRow(h, agent_id, session_id, agent_type, status, progress)
               /\ \A type \in InteractionTypeInputs, requires_response \in BOOLEAN :
                    ~ /\ type \notin {"question", "response", "status", "log", "error",
                                       "checkpoint"}
                      /\ InsertInteractionRow(h, agent_id, session_id, type, requires_response)
               /\ \A change_type \in ChangeTypeInputs, lines_added \in LinesInputs :
                    ~ /\ change_type \notin {"created", "modified", "deleted", "renamed"}
                      /\ InsertFileChangeRow(h, agent_id, session_id, change_type, lines_added)]_vars

\* a write was refused by a CHECK on a store that holds a session and an
\* agent with declared values
C15_Witness ==
    /\ last.ret = Err(CheckFailed)
    /\ db.sessions # {} /\ db.agents # {}
    /\ EnumsDeclared(db)

\* C16 as stated: over the opens of a store the script of a migration is
\* executed at most once.
C16_ExecutedOnce ==
    \A v \in Versions : Cardinality({ h \in Handles : v \in executed[h] }) <= 1

\* C16: over opens that follow one another, an open executes the script of
\* a migration only if its version is above the version it read and above
\* the persisted version, after the scripts of lower versions; no migration
\* is committed twice.
C16_AppliedOnce ==
    /\ [](\A v \in Versions : commits[v] <= 1)
    /\ [][\A h \in Handles :
            \A v \in executed'[h] \ executed[h] :
                /\ v > current_version[h]
                /\ v > PersistedVersion(db)
                /\ v \notin db.schema_version
                /\ \A u \in executed[h] : u < v]_vars

\* an open failed in the transaction of migration 1, the next one executed
\* the script again and committed, and a third one executed nothing
C16_Witness ==
    \E h, g, k \in Handles :
        /\ failed_at[h] = 1 /\ executed[h] = {1}
        /\ pc[g] = "open" /\ executed[g] = {1}
        /\ pc[k] = "open" /\ executed[k] = {}
        /\ commits[1] = 1

\* C17: the persisted schema_version holds the versions of the committed
\* migrations and nothing else, no migration is committed twice, no step
\* removes a row, and the persisted version never decreases.
C17_AppendOnly ==
    /\ [](/\ db.schema_version = { v \in Versions : commits[v] >= 1 }
          /\ \A v \in Versions : commits[v] <= 1)
    /\ [][/\ db.schema_version \subseteq db'.schema_version
          /\ PersistedVersion(db') >= PersistedVersion(db)]_vars

\* one open failed in its migration, the next one migrated, removed a
\* session by cleanup and was closed, a later open found the store up to
\* date, and the only version row is that of migration 1
C17_Witness ==
    /\ pc[Main] = "closed"
    /\ last.out = <<"Cleaned up", 1, 0>>
    /\ db.schema_version = {1}
    /\ \E g, h \in Handles \ {Main} :
         /\ pc[g] = "open" /\ uptodate_at_start[g]
         /\ failed_at[h] = 1

\* C18: the second statement of cleanup removes no row: the count it
\* reports is 0 and the transaction's store is the same before and after it.
C18_OrphanSweepRemovesNothing ==
    /\ [](\A h \in Handles : deleted[h][2] = 0)
    /\ [][\A h \in Handles :
            (cpc[h] = "sessions_deleted" /\ cpc'[h] = "orphans_deleted")
              => tx'[h] = tx[h]]_vars

\* the first statement removed a session whose old interaction went with
\* it by cascade, and the second statement has run and removed nothing
C18_Witness ==
    \E h \in Handles :
        /\ cpc[h] = "orphans_deleted"
        /\ \E i \in snap[h].interactions : InstantBefore(i.timestamp, now)
        /\ tx[h].interactions = {}
        /\ deleted[h] = <<1, 0>>

\* C19 as stated, for the sessions that started after the cutoff (a start
\* at the very instant of the cutoff is left out): a committed cleanup
\* leaves every session that is active or paused, or that started after the
\* cutoff, as it was, with every agent, interaction and file change that
\* names such a session, and leaves schema_version as it was.
C19_RetainedUnchanged ==
    [][\A h \in Handles :
         CleanupCommitted(h) =>
           LET kept == { r \in snap[h].sessions :
                           \/ r.status \in {"active", "paused"}
                           \/ \/ r.started_at[1] > cutoff[h].day
                              \/ /\ r.started_at[1] = cutoff[h].day
                                 /\ r.started_at[3] > cutoff[h].tod }
           IN /\ kept \subseteq db'.sessions
              /\ \A r \in snap[h].agents :
                   r.session_id \in Ids(kept) => r \in db'.agents
              /\ \A r \in snap[h].interactions :
                   r.session_id \in Ids(kept) => r \in db'.interactions
              /\ \A r \in snap[h].file_changes :
                   r.session_id \in Ids(kept) => r \in db'.file_changes
              /\ db'.schema_version = snap[h].schema_version]_vars

====
